---- MODULE Spec2Model ----
(***************************************************************************)
(* Model of V8SandboxService (the isolate pool, execute() and dispose())   *)
(* of the Jira code-mode server, services/v8-sandbox.service.ts, which the *)
(* weather server repeats with a single get_weather capability.            *)
(*                                                                         *)
(* The host is one Node.js event loop: every action below is the code that *)
(* runs between two awaits of the host, or one step of a guest script in   *)
(* its isolate.  The isolated-vm library is modelled by its documented     *)
(* behaviour: createContext() makes an empty global scope and fails on a   *)
(* disposed isolate, the `timeout` of script.run covers the synchronous    *)
(* run of the script only, exceeding memoryLimit disposes the isolate,     *)
(* only transferable values (primitives) leave the isolate without         *)
(* {copy: true}, and dispose() of a disposed isolate throws.               *)
(*                                                                         *)
(* JiraService (services/jira.service.ts: the readonly guard of request()  *)
(* and the field cache of getFieldId()) and WeatherService (the hash of    *)
(* getWeather()) are modelled next to it, each with its own actions.       *)
(*                                                                         *)
(* The session layer of the Jira server (mcp-server.ts: the `sessions` map *)
(* and handleMcpPost / handleMcpGet / handleMcpDelete) is modelled with    *)
(* the transports of the MCP SDK taken by their documented behaviour: a    *)
(* transport calls onsessioninitialized once, when it handles an           *)
(* initialize request, with an id of sessionIdGenerator, and close() calls *)
(* onclose.  The weather server has the same handlers without the          *)
(* JiraService.                                                            *)
(***************************************************************************)
EXTENDS Integers, Sequences, FiniteSets, TLC

(* ------------------------------ bounds --------------------------------- *)
MaxCalls == 2        \* execute() invocations of the guest-level specification
PoolCalls == 6       \* execute() invocations of the pool-level specification
MaxDispose == 1      \* dispose() invocations
MaxWire == 2         \* HTTP requests sent to Jira
MaxLookups == 3      \* getFieldId() invocations
MaxCity == 5         \* characters of a city name

(* ------------------------- program constants --------------------------- *)
maxPoolSize == 5
warmCount == 3
memoryLimitMb == 128
timeoutMs == 10000

(* The same of the weather server, and what the code_execution tools of    *)
(* the two servers tell their callers, in ms and MB.                       *)
weatherMemoryLimitMb == 128
weatherTimeoutMs == 5000
advertisedTimeoutMs == 30000
advertisedMemoryMb == 128
weatherAdvertisedTimeoutMs == 5000
weatherAdvertisedMemoryMb == 128

None == "<unset>"    \* an absent value: `undefined` of a field or a variable

Max(a, b) == IF a > b THEN a ELSE b
Calls == 1..Max(MaxCalls, PoolCalls)
Engines == 1..(warmCount + Max(MaxCalls, PoolCalls))
Services == {1, 2}   \* the JiraService instances (one per session)

(* Error messages: of isolated-vm and V8, then of the Jira handlers.       *)
ErrDisposed  == "Isolate is disposed"
ErrAlready   == "Isolate is already disposed"
ErrSyntax    == "SyntaxError: Unexpected token"
ErrTimeout   == "Script execution timed out."
ErrMemory    == "Isolate was disposed during execution due to memory limit"
ErrTransfer  == "A non-transferable value was passed"
ErrReadonly  == "Jira is in READONLY mode. Set JIRA_READONLY=false in .env to enable writes."
ErrNoField   == "jira_field is not defined"
ErrNoMethod(m) == "console." \o m \o " is not a function"
HandlerErrors == {ErrReadonly}

(* Guest values: what the async wrapper of a script may resolve to.  An    *)
(* object carries its JSON text.                                           *)
JsUndefined == [t |-> "undefined", n |-> 0, s |-> ""]
JsNumber(k) == [t |-> "number", n |-> k, s |-> ""]
JsString(x) == [t |-> "string", n |-> 0, s |-> x]
JsObject(x) == [t |-> "object", n |-> 0, s |-> x]
JsNull == [t |-> "null", n |-> 0, s |-> ""]

(* The composite values of the model, by their compact JSON text.          *)
Composites == {"{\"a\":1}", "[1,2]"}

(* --------------------------- guest scripts ----------------------------- *)
(* A script is the sequence of its statements; reaching the end returns    *)
(* undefined.  "log": console.log of a string that names the call and the  *)
(* statement; "set": an assignment to a property of the global object;     *)
(* "call": await jira_api('POST', ..), inside try/catch(e){console.log(    *)
(* e.message)} when b; "ret": return v; "throw": throw new Error(s);       *)
(* "loop": while(true){}; "pend": await new Promise(() => {}); "alloc":    *)
(* allocation past the memory limit; "syntax": text that does not parse.   *)
(* A "call" with a number v is await jira_search(v); "par" is              *)
(* await Promise.all([1..v].map(k => jira_search(k))); "logr":             *)
(* console.log of the values received last; "mut": an assignment to a      *)
(* property of each value received last.  "print": console.<s>(...) with   *)
(* the v-th argument list of Arguments; "field": await jira_field(s).      *)
Op(o, v, s, b) == [op |-> o, v |-> v, s |-> s, b |-> b]
OpLog == Op("log", JsUndefined, "", FALSE)
OpSet == Op("set", JsUndefined, "", FALSE)
OpCall(catches) == Op("call", JsUndefined, "_jiraApi", catches)
OpRet(v) == Op("ret", v, "", FALSE)
OpThrow(msg) == Op("throw", JsUndefined, msg, FALSE)
OpLoop == Op("loop", JsUndefined, "", FALSE)
OpPend == Op("pend", JsUndefined, "", FALSE)
OpAlloc == Op("alloc", JsUndefined, "", FALSE)
OpSyntax == Op("syntax", JsUndefined, "", FALSE)
OpAsk(k) == Op("call", JsNumber(k), "_jiraSearch", FALSE)
OpAll(k) == Op("par", JsNumber(k), "_jiraSearch", FALSE)
OpLogR == Op("logr", JsUndefined, "", FALSE)
OpMut == Op("mut", JsUndefined, "", FALSE)
OpPrint(method, k) == Op("print", JsNumber(k), method, FALSE)
OpField == Op("field", JsUndefined, "Story Points", FALSE)

(* The argument lists of the console calls of the model.                   *)
Arguments == <<
  <<>>,
  <<JsNumber(42)>>,
  <<JsString("a"), JsObject("{\"a\":1}")>>,
  <<JsNull, JsUndefined, JsNumber(1)>> >>

(* What the code_execution tool of the Jira server says a script can call, *)
(* mcp-server.ts lines 285-289.                                            *)
Advertised == {"jira_search", "jira_api", "jira_field", "console.log"}

(* What the wrapper defines for the script, lines 356-372: the methods of  *)
(* console, the two stubs, and the reference each of them applies.         *)
ConsoleMethods == {"log", "error"}
GuestFunctions ==
  {<<"console." \o m, "_log">> : m \in ConsoleMethods}
    \cup {<<"jira_search", "_jiraSearch">>, <<"jira_api", "_jiraApi">>}
Defined(name) == \E f \in GuestFunctions : f[1] = name

(* The scripts of the guest-level specification: how a run can end.       *)
Scripts == {
  <<OpLog>>,
  <<OpRet(JsNumber(42))>>,
  <<OpSet, OpThrow("boom")>>,
  <<OpLoop>>,
  <<OpPend>>,
  <<OpAlloc>>,
  <<OpSyntax>> }

(* The scripts of the bridge-level specification: capability calls.        *)
BridgeScripts == {
  <<OpSet, OpCall(TRUE), OpLog>>,
  <<OpCall(FALSE), OpRet(JsNumber(42))>> }

(* The scripts of the log-level specification: logs before a failure and   *)
(* around awaited calls.                                                   *)
LogScripts == {
  <<OpLog, OpThrow("boom")>>,
  <<OpLog, OpAsk(1), OpLogR, OpAsk(2), OpLogR>>,
  <<OpLog, OpSyntax>>,
  <<OpLog, OpLog, OpLoop>> }

(* The scripts of the value-level specification: what a script resolves to.*)
ValueScripts == {
  <<OpRet(JsNumber(42))>>,
  <<OpRet(JsString("ok"))>>,
  <<OpRet(JsNull)>>,
  <<OpLog, OpRet(JsNull)>>,
  <<OpSet>>,
  <<OpLog>>,
  <<OpAsk(21), OpLogR>> }
    \cup {<<OpRet(JsObject(x))>> : x \in Composites}

(* The scripts of the call-level specification: calls that are not awaited *)
(* one by one, and a received value that the guest changes.                *)
CallScripts == {
  <<OpAll(2), OpLogR>>,
  <<OpAsk(1), OpMut, OpLogR>> }

(* The scripts of the tool-level specification: one call of each function  *)
(* a script may try.                                                       *)
ToolScripts ==
  {<<OpPrint(m, k)>> : m \in {"log", "error", "warn"}, k \in DOMAIN Arguments}
    \cup {<<OpField>>, <<OpAsk(1), OpLogR>>, <<OpCall(FALSE), OpLogR>>}

(* The scripts of the report-level specification: runs that end in the try *)
(* block and runs that end in the catch block, one of them on a thrown     *)
(* Error whose message is empty.                                           *)
ReportScripts == {
  <<OpRet(JsNumber(42))>>,
  <<OpLog>>,
  <<OpThrow("boom")>>,
  <<OpThrow("")>>,
  <<OpLog, OpThrow("")>>,
  <<OpSyntax>>,
  <<OpLoop>> }

(* The scripts of the pool-level specifications: runs that succeed, runs   *)
(* that exceed the memory limit.                                           *)
PoolScripts == { <<OpRet(JsNumber(42))>> }
TrapScripts == { <<OpAlloc>> }

VARIABLES
  pool,        \* this.pool: the idle isolates, a stack (push/pop at the end)
  isolate,     \* per engine: "none" (not constructed), "live" or "disposed"
  jail,        \* per engine: the global scope of its most recent context
  pc,          \* per call: where the execute() invocation stands
  loan,        \* per call: the isolate of the invocation (const isolate)
  svc,         \* per call: the jiraService argument
  code,        \* per call: the code argument
  pos,         \* per call: statements of the script already run
  logs,        \* per call: const logs: string[]
  failed,      \* per call: the messages its capability handlers failed with
  pending,     \* per call: the requests whose handler has not settled
  got,         \* per call: the guest's variables, <<request, reference>>
  heap,        \* per call: the values of its handlers and their copies
  callee,      \* per call: the service its latest capability call reached
  last,        \* what the latest step returned to a caller of execute()
  disposals,   \* dispose() invocations so far
  sessions,    \* the JiraService instances constructed (one per session)
  readonly,    \* per service: this.readonly
  fieldCache,  \* per service: this.fieldCache, the lower-cased names it maps
  fieldCacheLoaded,  \* per service: this.fieldCacheLoaded
  lookups,     \* per getFieldId invocation: where it stands and its answer
  wire,        \* the HTTP requests sent to Jira, in order
  reply,       \* how the latest JiraService.request call came out
  weather,     \* what the latest WeatherService.getWeather call returned
  registry,    \* the Map `sessions` of mcp-server.ts, as <<id, transport>>
  transport,   \* per transport: whether it is open, its session id, and
               \* the request it was created for while it handles it
  servers,     \* the transports an McpServer is connected to
  exchange     \* the latest HTTP request to /mcp and its response

vars == <<pool, isolate, jail, pc, loan, svc, code, pos, logs, failed,
          pending, got, heap, callee, last, disposals,
          sessions, readonly, fieldCache, fieldCacheLoaded, lookups, wire,
          reply, weather, registry, transport, servers, exchange>>

(* The state of the guest/host bridge of the calls.                        *)
bridge == <<pending, got, heap, callee>>

(* The state of the sandbox service and of its execute() invocations.      *)
sandbox == <<pool, isolate, jail, pc, loan, svc, code, pos, logs, failed,
             pending, got, heap, callee, last, disposals>>

(* The state of the JiraService instances and of the requests they sent.   *)
jira == <<sessions, readonly, fieldCache, fieldCacheLoaded, lookups, wire,
          reply>>

(* The state of the services the handlers of the sandboxes call.           *)
hosts == <<jira, weather>>

(* The state of the session layer of the MCP server.                       *)
http == <<registry, transport, servers, exchange>>

(* ---------------------------- pure helpers ----------------------------- *)
Last(s) == s[Len(s)]
Front(s) == SubSeq(s, 1, Len(s) - 1)
InPool(e) == \E i \in 1..Len(pool) : pool[i] = e

(* new ivm.Isolate({memoryLimit}): the next engine never constructed.      *)
FreshEngine == CHOOSE e \in Engines :
                 /\ isolate[e] = "none"
                 /\ \A f \in Engines : isolate[f] = "none" => e <= f

(* The heap of an isolate, as far as guest code can tell: the references   *)
(* (stubs) and the guest-made properties (globals) of the global scope of  *)
(* its most recent context, and what the scopes of its older contexts      *)
(* hold.                                                                   *)
EmptyGlobal == [stubs |-> {}, globals |-> {}, older |-> {}]

(* A context that is kept from one run to the next.                        *)
createContextReused(g) == g

(* isolate.createContext(), line 322, in an isolate whose heap is g: a new *)
(* context with an empty global scope; the earlier one is out of reach.    *)
createContext(g) ==
  [stubs |-> {}, globals |-> {},
   older |-> g.older \cup g.stubs \cup {<<"var", x>> : x \in g.globals}]

(* JSON.stringify(result, null, 2), line 389, of the composite value with  *)
(* compact text x: one member or element per line, indented by two spaces. *)
Stringify2(x) ==
  CASE x = "{\"a\":1}" -> "{\n  \"a\": 1\n}"
    [] x = "[1,2]" -> "[\n  1,\n  2\n]"
    [] OTHER -> x

(* The output conversion, lines 385-392: the `undefined` / `null`          *)
(* fallbacks, JSON.stringify of an object, String(result) of a primitive.  *)
OutputOf(v, lg) ==
  IF v.t \in {"undefined", "null"}
    THEN IF Len(lg) > 0 THEN Last(lg) ELSE "undefined"
    ELSE IF v.t = "object" THEN Stringify2(v.s)
    ELSE IF v.t = "number" THEN ToString(v.n) ELSE v.s

NoResult == [kind |-> "none", output |-> None, error |-> None]
Settled(kind, v, msg) == [kind |-> kind, v |-> v, msg |-> msg]
Rejected(msg) == Settled("rejected", JsUndefined, msg)
NoSettle == Settled("none", JsUndefined, "")
(* The options of script.run, lines 380-383.                               *)
RunOptions == [timeout |-> timeoutMs, promise |-> TRUE]

NoLast == [call |-> 0, loan |-> 0, code |-> <<>>, at |-> 0, settle |-> NoSettle,
           logs |-> <<>>, failed |-> <<>>, did |-> "no", result |-> NoResult,
           options |-> [timeout |-> 0, promise |-> FALSE]]

(* ------------------------------ JiraService ---------------------------- *)
(* Paths are written by their segments: '/rest/api/2/search' is            *)
(* <<"rest", "api", "2", "search">>, the relative '/issue' is <<"issue">>.  *)
ApiRoot == <<"rest", "api", "2">>
SearchPath == ApiRoot \o <<"search">>
IssuePath == ApiRoot \o <<"issue">>
FieldPath == ApiRoot \o <<"field">>
Paths == {SearchPath, IssuePath, <<"issue">>, <<"search">>}

(* The methods of the jira_execute tool (its z.enum, mcp-server.ts line    *)
(* 261) and methods a script may pass to jira_api, a string of its choice. *)
ToolMethods == {"GET", "POST", "PUT", "DELETE"}
GuestMethods == ToolMethods \cup {"post", "delete", "PATCH"}

(* The values of process.env.JIRA_READONLY; None when it is not set.       *)
EnvValues == {None, "false", "FALSE"}

(* method.toUpperCase().                                                   *)
toUpperCase(m) ==
  CASE m = "post" -> "POST"
    [] m = "delete" -> "DELETE"
    [] OTHER -> m

(* fieldName.toLowerCase().                                                *)
toLowerCase(x) ==
  CASE x = "Story Points" -> "story points"
    [] x = "Epic Link" -> "epic link"
    [] x = "Sprint" -> "sprint"
    [] OTHER -> x

(* The fields Jira lists under GET /rest/api/2/field, <<name, id>>, and    *)
(* the names a caller may look up.  fieldCacheLoaded is set once the       *)
(* answer has been read, line 89, never while the request is under way.    *)
ServerFields == {<<"Story Points", "customfield_10002">>,
                 <<"Epic Link", "customfield_10970">>}
FieldNames == {"Story Points", "story points", "Sprint"}

Lookups == 1..MaxLookups
NoLookup == [pc |-> "idle", svc |-> 0, key |-> "", result |-> None]
NoReply == [via |-> "none", svc |-> 0, method |-> "", path |-> <<>>,
            kind |-> "none", error |-> None]

(* The constructor, line 35: readonly unless the variable is 'false'.      *)
ReadonlyOf(env) == env # "false"

(* The methods request() takes for mutating, line 196.                     *)
IsMutating(method) == toUpperCase(method) \in {"POST", "PUT", "DELETE"}

(* The condition under which request() calls checkWriteAccess(), line 196. *)
NeedsWriteAccess(method, path) == IsMutating(method) /\ path # SearchPath

(* Lines 200-201: a path that does not start with '/rest/' is taken        *)
(* relative to /rest/api/2.                                                *)
FullPath(path) ==
  IF Len(path) > 1 /\ path[1] = "rest" THEN path ELSE ApiRoot \o path

(* request(method, path) of a service whose readonly flag is ro, lines     *)
(* 190-249 with checkWriteAccess, lines 274-280: the rejection, or the     *)
(* HTTP request that goes out.                                             *)
Request(s, ro, method, path) ==
  IF NeedsWriteAccess(method, path) /\ ro
    THEN [kind |-> "rejected", error |-> ErrReadonly, sent |-> <<>>]
    ELSE [kind |-> "sent", error |-> None,
          sent |-> <<[svc |-> s, method |-> toUpperCase(method),
                      path |-> FullPath(path)]>>]

(* ----------------------------- WeatherService -------------------------- *)
(* A city name is the sequence of its UTF-16 code units: 68 is 'D', 100    *)
(* 'd', 26481 the first character of the name of Tokyo in Japanese.        *)
Letters == {68, 100, 26481}
Cities == UNION {[1..n -> Letters] : n \in 0..MaxCity}

(* WeatherService.CONDITIONS, lines 8-17.                                  *)
CONDITIONS == <<"Sunny", "Partly Cloudy", "Cloudy", "Light Rain",
                "Heavy Rain", "Thunderstorm", "Foggy", "Clear">>

(* A 32-bit word by its two 16-bit halves; as an int32 it is negative when *)
(* its upper half is 32768 or more.                                        *)
Half == 65536
Word(hi, lo) == [hi |-> hi, lo |-> lo]
Negative(w) == w.hi >= Half \div 2

(* (Math.imul(31, h) + str.charCodeAt(i)) | 0, line 25: the low 32 bits.  *)
HashStep(h, unit) ==
  LET low == 31 * h.lo + unit
  IN Word((31 * h.hi + (low \div Half)) % Half, low % Half)

(* The loop of hash(), lines 23-26, over the first n code units.           *)
RECURSIVE HashLoop(_, _)
HashLoop(str, n) ==
  IF n = 0 THEN Word(0, 0) ELSE HashStep(HashLoop(str, n - 1), str[n])

(* Math.abs(h), line 27, of the int32 w: a number of up to 2^31, by its    *)
(* halves.                                                                 *)
Abs(w) ==
  IF ~Negative(w) THEN w
  ELSE IF w.lo = 0 THEN Word(Half - w.hi, 0)
  ELSE Word(Half - 1 - w.hi, Half - w.lo)

(* hash(str), lines 22-28.                                                 *)
hash(str) == Abs(HashLoop(str, Len(str)))

(* seed % m, lines 45-48, of a seed that is not negative.                  *)
Remainder(seed, m) == ((seed.hi % m) * (Half % m) + seed.lo) % m

(* A lookup that hashes the name as it was given.                          *)
cityAsGiven(city) == city

(* city.toLowerCase(), line 42, on the code units: 'A'..'Z' are 65..90.    *)
cityToLowerCase(city) ==
  [i \in 1..Len(city) |-> IF city[i] \in 65..90 THEN city[i] + 32 ELSE city[i]]

(* getWeather(city), lines 34-50.                                          *)
getWeather(city) ==
  LET seed == hash(cityToLowerCase(city))
  IN [city |-> city,
      temp |-> 20 + Remainder(seed, 20),
      humidity |-> 40 + Remainder(seed, 40),
      condition |-> CONDITIONS[Remainder(seed, Len(CONDITIONS)) + 1]]

NoWeather == [city |-> <<>>, temp |-> 0, humidity |-> 0, condition |-> None]

(* ------------------------------- Init ---------------------------------- *)
(* The constructor, lines 306-311.                                         *)
(* -------------------- the session layer (/mcp) ------------------------ *)
(* The transports of the model, one per JiraService: handleMcpPost makes   *)
(* both for a new session, lines 372-387.                                  *)
Transports == Services

(* What sessionIdGenerator can return, line 382, and the                   *)
(* values of the mcp-session-id header of a request.                       *)
SessionIds == {"mcp-1", "mcp-2"}
HeaderIds == SessionIds \cup {"mcp-x", None}

(* The requests a POST can carry: an initialize request or another one.    *)
Bodies == {"initialize", "other"}

(* The values of the X-Jira-PAT header and of process.env.JIRA_URL.        *)
Pats == {None, "", "pat"}
Urls == {None, "https://jira"}

ErrNoPat == "Missing X-Jira-PAT header. Configure PAT in VS Code mcp.json inputs."
ErrNoUrl == "Missing JIRA_URL env var. Set it in .env file."
ErrNoSession == "No valid session."

(* A transport that does not exist yet, and no request so far.  A status   *)
(* of 0 stands for the response a transport writes itself.                 *)
NoTransport == [state |-> "none", id |-> None, handling |-> "none"]
NoExchange == [method |-> None, id |-> None, body |-> None, pat |-> None,
               url |-> None, status |-> 0, by |-> 0, error |-> None]

Init ==
  /\ pool = [i \in 1..warmCount |-> i]
  /\ isolate = [e \in Engines |-> IF e <= warmCount THEN "live" ELSE "none"]
  /\ jail = [e \in Engines |-> EmptyGlobal]
  /\ pc = [c \in Calls |-> "idle"]
  /\ loan = [c \in Calls |-> 0]
  /\ svc = [c \in Calls |-> 0]
  /\ code = [c \in Calls |-> <<>>]
  /\ pos = [c \in Calls |-> 0]
  /\ logs = [c \in Calls |-> <<>>]
  /\ failed = [c \in Calls |-> <<>>]
  /\ pending = [c \in Calls |-> {}]
  /\ got = [c \in Calls |-> {}]
  /\ heap = [c \in Calls |-> <<>>]
  /\ callee = [c \in Calls |-> 0]
  /\ last = NoLast
  /\ disposals = 0
  /\ sessions = {}
  /\ readonly = [s \in Services |-> TRUE]
  /\ fieldCache = [s \in Services |-> {}]
  /\ fieldCacheLoaded = [s \in Services |-> FALSE]
  /\ lookups = [l \in Lookups |-> NoLookup]
  /\ wire = <<>>
  /\ reply = NoReply
  /\ weather = NoWeather
  /\ registry = {}
  /\ transport = [x \in Transports |-> NoTransport]
  /\ servers = {}
  /\ exchange = NoExchange

(* ------------------------- the pool operations ------------------------- *)
(* An acquire that constructs an engine whatever the pool holds.           *)
PoppedFresh(p) == FreshEngine

(* An acquire that constructs nothing when the pool is empty.              *)
PoppedOrNothing(p) == IF Len(p) > 0 THEN Last(p) ELSE 0

(* this.pool.pop() || new ivm.Isolate(...), lines 317-318.                 *)
Popped(p) == IF Len(p) > 0 THEN Last(p) ELSE FreshEngine

(* A pop that leaves the engine in the pool.                               *)
AfterPopPeek(p) == p

(* this.pool after the pop of line 317.                                    *)
AfterPop(p) == IF Len(p) > 0 THEN Front(p) ELSE p

(* A release that keeps fewer engines than the constructor made.           *)
UnderWarm(p) == Len(p) < warmCount - 1

(* The test with <= in place of <.                                         *)
UnderMaxInclusive(p) == Len(p) <= maxPoolSize

(* The test of the finally block, line 399.                                *)
UnderMax(p) == Len(p) < maxPoolSize

(* A finally block that leaves the isolate where it is.                    *)
FinallySkipped(e, iso) == [pool |-> pool, isolate |-> iso, did |-> "pooled"]

(* The finally block, lines 398-404, for isolate e: the pool, the engine   *)
(* states (iso before it) and what happened: "pooled", "disposed", or      *)
(* "threw" when isolate.dispose() is called on a disposed isolate.         *)
Finally(e, iso) ==
  IF UnderMax(pool)
    THEN [pool |-> Append(pool, e), isolate |-> iso, did |-> "pooled"]
    ELSE IF iso[e] = "disposed"
      THEN [pool |-> pool, isolate |-> iso, did |-> "threw"]
      ELSE [pool |-> pool, isolate |-> [iso EXCEPT ![e] = "disposed"],
            did |-> "disposed"]

(* The object of the try block, lines 385-394.                             *)
TryResult(v, lg) == [kind |-> "returned", output |-> OutputOf(v, lg), error |-> None]

(* A catch block that drops the message.                                   *)
CatchResultNoError(msg) == [kind |-> "returned", output |-> "", error |-> None]

(* The object of the catch block, lines 395-397.                           *)
CatchResult(msg) == [kind |-> "returned", output |-> "", error |-> msg]

(* What execute() hands to its caller: the object of the try or of the     *)
(* catch block, unless the finally block threw.                            *)
Returned(st, lg, did) ==
  IF did = "threw"
    THEN [kind |-> "threw", output |-> None, error |-> ErrAlready]
    ELSE IF st.kind = "resolved" THEN TryResult(st.v, lg) ELSE CatchResult(st.msg)

(* logs.join(sep).                                                         *)
RECURSIVE Join(_, _)
Join(lg, sep) ==
  IF Len(lg) = 0 THEN ""
  ELSE IF Len(lg) = 1 THEN lg[1]
  ELSE lg[1] \o sep \o Join(Tail(lg), sep)

(* A failure response that leaves the logs out.                            *)
ToolResponseNoLogs(result, lg) ==
  [isError |-> TRUE, text |-> "Error: " \o result.error]

(* The code_execution handler on the result of execute(),                  *)
(* jira-code-mode/src/mcp-server.ts lines 322-349 (src/mcp-server.ts lines *)
(* 75-104); an absent and an empty error are falsy alike.                  *)
ToolResponse(result, lg) ==
  IF result.error \notin {None, ""}
    THEN [isError |-> TRUE,
          text |-> "Error: " \o result.error \o "\n\nLogs:\n" \o Join(lg, "\n")]
    ELSE LET logsPart == IF Len(lg) > 0
                           THEN <<"Logs:\n" \o Join(lg, "\n")>> ELSE <<>>
             resultPart == IF result.output \notin {"", "undefined"}
                             THEN <<"Result: " \o result.output>> ELSE <<>>
             parts == logsPart \o resultPart
         IN [isError |-> FALSE,
             text |-> IF parts = <<>>
                        THEN "Code executed successfully (no output)"
                        ELSE Join(parts, "\n\n")]

(* The global scope g once call c has returned: the context stays in the   *)
(* isolate, its _log reference now holds an array no invocation owns       *)
(* (written 0).                                                            *)
Orphaned(g, c) ==
  [g EXCEPT !.stubs = {IF st = <<"_log", c>> THEN <<"_log", 0>> ELSE st : st \in @}]

(* The rest of execute() once an await of the try block settled as st,     *)
(* lines 385-404: the output conversion or the catch block, the finally    *)
(* block, the return; iso and scopes are the engine states and the global  *)
(* scopes before it, fl the failures of its handlers.  The locals of the   *)
(* invocation go with it: what is left of call c is `last`, with the       *)
(* number of statements the script had run (at) and the options its        *)
(* script.run call was given, if it came to that call.                     *)
Complete(c, st, iso, scopes, fl) ==
  LET f == Finally(loan[c], iso) IN
    /\ pool' = f.pool
    /\ isolate' = f.isolate
    /\ last' = [call |-> c, loan |-> loan[c], code |-> code[c],
                at |-> pos[c], settle |-> st,
                logs |-> logs[c], failed |-> fl, did |-> f.did,
                result |-> Returned(st, logs[c], f.did),
                options |-> IF st.msg \in {ErrDisposed, ErrSyntax}
                              THEN NoLast.options ELSE RunOptions]
    /\ jail' = [scopes EXCEPT ![loan[c]] = Orphaned(@, c)]
    /\ pc' = [pc EXCEPT ![c] = "done"]
    /\ loan' = [loan EXCEPT ![c] = 0]
    /\ svc' = [svc EXCEPT ![c] = 0]
    /\ code' = [code EXCEPT ![c] = <<>>]
    /\ pos' = [pos EXCEPT ![c] = 0]
    /\ logs' = [logs EXCEPT ![c] = <<>>]
    /\ failed' = [failed EXCEPT ![c] = <<>>]
    /\ pending' = [pending EXCEPT ![c] = {}]
    /\ got' = [got EXCEPT ![c] = {}]
    /\ heap' = [heap EXCEPT ![c] = <<>>]
    /\ callee' = [callee EXCEPT ![c] = 0]

(* ------------------------------ execute() ------------------------------ *)
(* Lines 316-319: the synchronous head of execute(), up to the first       *)
(* await.  Calls are numbered in the order they are made.                  *)
Execute(c, s, text) ==
  /\ pc[c] = "idle"
  /\ \A d \in Calls : d < c => pc[d] # "idle"
  /\ LET e == Popped(pool) IN
       /\ loan' = [loan EXCEPT ![c] = e]
       /\ isolate' = [isolate EXCEPT ![e] = IF @ = "none" THEN "live" ELSE @]
  /\ pool' = AfterPop(pool)
  /\ svc' = [svc EXCEPT ![c] = s]
  /\ code' = [code EXCEPT ![c] = text]
  /\ logs' = [logs EXCEPT ![c] = <<>>]
  /\ pc' = [pc EXCEPT ![c] = "bind"]
  /\ UNCHANGED <<jail, pos, failed, bridge, disposals>>
  /\ UNCHANGED <<hosts, http>>
  /\ last' = NoLast

(* jail.set(name, ref): one property of the global scope.                  *)
JailSet(g, name, b) ==
  [g EXCEPT !.stubs = {st \in @ : st[1] # name} \cup {<<name, b>>}]

(* A context that is built for the first run of an engine only: later     *)
(* runs keep the references of that run.                                   *)
BoundOnce(c) ==
  IF jail[loan[c]].stubs # {}
    THEN jail[loan[c]]
    ELSE JailSet(JailSet(JailSet(JailSet(jail[loan[c]], "global", 0), "_log", c),
                         "_jiraSearch", svc[c]), "_jiraApi", svc[c])

(* Lines 322-353: the context of call c, `global` and the three            *)
(* references: _log pushes onto the logs of c, the other two call the      *)
(* service of c.                                                           *)
Bound(c) ==
  JailSet(JailSet(JailSet(JailSet(createContext(jail[loan[c]]), "global", 0),
                          "_log", c),
                  "_jiraSearch", svc[c]), "_jiraApi", svc[c])

(* A compiler that reads no further than the first statement.             *)
CompilesLazily(text) == Len(text) > 0 => text[1].op # "syntax"

(* isolate.compileScript(wrappedCode), line 379.                           *)
Compiles(text) == \A i \in 1..Len(text) : text[i].op # "syntax"

(* Lines 322-383: createContext, the jail.set calls, compileScript and the *)
(* start of script.run.  These awaits touch the loaned isolate only.       *)
Bind(c) ==
  /\ pc[c] = "bind"
  /\ IF isolate[loan[c]] = "disposed"
       THEN Complete(c, Rejected(ErrDisposed), isolate, jail, failed[c])
       ELSE LET bound == [jail EXCEPT ![loan[c]] = Bound(c)] IN
              IF Compiles(code[c])
                THEN /\ jail' = bound
                     /\ pc' = [pc EXCEPT ![c] = "run"]
                     /\ UNCHANGED <<pool, isolate, loan, svc, code, pos, logs,
                                    failed, bridge>>
                     /\ last' = NoLast
                ELSE Complete(c, Rejected(ErrSyntax), isolate, bound, failed[c])
  /\ UNCHANGED <<disposals, hosts, http>>

(* --------------------------- the guest script -------------------------- *)
Line(c, n) == "L" \o ToString(c) \o "." \o ToString(n)

(* A log buffer that takes new lines at its head.                          *)
Unshift(lg, line) == <<line>> \o lg

(* logs.push(line), lines 330-334.                                         *)
Push(lg, line) == Append(lg, line)

(* One log buffer for all runs, that of the first call.                    *)
LogTargetShared(g) == 1

(* The call whose logs array the _log reference of scope g pushes onto.    *)
LogTarget(g) == CHOOSE d \in Calls : <<"_log", d>> \in g.stubs

(* Whether the script has been suspended before statement i: the timeout   *)
(* of script.run (lines 380-383) covers the synchronous run only.          *)
Suspended(text, i) ==
  \E j \in 1..(i - 1) : text[j].op \in {"call", "par", "pend"}
TimeoutArmed(text, i) == ~Suspended(text, i)

(* What leaves the isolate when the async wrapper resolves to v: without   *)
(* {copy: true} only a primitive is transferable.                          *)
Transfer(v) ==
  IF v.t = "object" THEN Rejected(ErrTransfer) ELSE Settled("resolved", v, "")

(* How script.run settles when the script ends with statement o; NoSettle *)
(* when o does not end it.  A call of a function the wrapper does not      *)
(* define throws in the script.                                            *)
Outcome(o) ==
  CASE o.op = "ret" -> Transfer(o.v)
    [] o.op = "throw" -> Rejected(o.s)
    [] o.op = "alloc" -> Rejected(ErrMemory)
    [] o.op = "print" /\ ~Defined("console." \o o.s) -> Rejected(ErrNoMethod(o.s))
    [] o.op = "field" /\ ~Defined("jira_field") -> Rejected(ErrNoField)
    [] OTHER -> NoSettle

(* The same when isolated-vm hands over undefined for a value it cannot    *)
(* transfer, as script.run does for the value of a synchronous script.     *)
TransferLax(v) ==
  IF v.t = "object" THEN Settled("resolved", JsUndefined, "")
                    ELSE Settled("resolved", v, "")

(* The ways script.run can settle when the script ends with statement o.   *)
Outcomes(o) ==
  IF o.op = "ret" THEN {Transfer(o.v), TransferLax(o.v)} ELSE {Outcome(o)}

(* Lines 364-371: the stubs apply the reference the global scope g holds   *)
(* under name; its handler (lines 339-352) calls the service it was made   *)
(* for (0: no such reference).                                             *)
Applied(g, name) ==
  LET bs == {st[2] : st \in {x \in g.stubs : x[1] = name}} IN
    IF bs = {} THEN 0 ELSE CHOOSE b \in bs : TRUE

(* The requests a statement sends to the handler of lines 339-343.         *)
Requests(o) ==
  CASE o.op = "call" -> {o.v.n}
    [] o.op = "par" -> 1..o.v.n
    [] OTHER -> {}

(* The JSON text of what jiraService.search answers to request a.          *)
Reply(a) == "R" \o ToString(a)

(* The object `results` of line 340 for request a, in the host heap.       *)
HostRef(a) == <<"host", a>>

(* A bridge that hands the host's object itself to the guest.              *)
copyIntoShared(ref) == ref

(* new ivm.ExternalCopy(results).copyInto(), line 341, received with       *)
(* {copy: true}, line 366: a new object in the guest heap.                 *)
copyInto(ref) == <<"guest", ref[2]>>

(* A bridge that settles the oldest open promise, whichever handler is     *)
(* done.                                                                   *)
SettlesOldest(a, open) == CHOOSE p \in open : \A q \in open : p <= q

(* The promise that the handler of request a settles, among those open:    *)
(* the one its own _jiraSearch.apply(...) returned, line 366.              *)
Settles(a, open) == a

(* The promises of the statement at which call c waits that are not        *)
(* settled.                                                                *)
Open(c) == Requests(code[c][pos[c]]) \ {x[1] : x \in got[c]}

(* What console.log prints for the values g received, in the order of the  *)
(* requests from k on; h is the heap.                                      *)
RECURSIVE Shown(_, _, _)
Shown(g, h, k) ==
  IF \A x \in g : x[1] < k THEN ""
  ELSE LET here == {x \in g : x[1] = k}
           text == IF here = {} THEN "" ELSE h[(CHOOSE x \in here : TRUE)[2]]
           more == here # {} /\ \E x \in g : x[1] > k
       IN text \o (IF more THEN "," ELSE "") \o Shown(g, h, k + 1)

(* a => typeof a === 'object' ? JSON.stringify(a) : String(a), of the      *)
(* wrapper (lines 357-362) and of the handler of _log (line 332).          *)
Stringified(a) ==
  CASE a.t = "object" -> a.s
    [] a.t = "null" -> "null"
    [] a.t = "undefined" -> "undefined"
    [] a.t = "number" -> ToString(a.n)
    [] OTHER -> a.s

(* What a method of console puts before its arguments, lines 357-362.      *)
Prefix(method) == IF method = "error" THEN <<JsString("ERROR:")>> ELSE <<>>

(* What console.<method>(args) passes to _log.applySync, lines 357-362:    *)
(* strings.                                                                *)
Forwarded(method, args) ==
  Prefix(method) \o [i \in 1..Len(args) |-> JsString(Stringified(args[i]))]

(* The line the handler of _log makes of what it receives, lines 331-333.  *)
LogEntry(args) == Join([i \in 1..Len(args) |-> Stringified(args[i])], " ")

(* The guest runs its next statement.  A log goes through _log.applySync   *)
(* to lines 329-335; a call applies the reference and suspends the script; *)
(* an allocation past the limit makes isolated-vm dispose the isolate.     *)
(* When the statement ends the script, script.run settles and execute()    *)
(* goes on with lines 385-404.                                             *)
GuestStep(c) ==
  /\ pc[c] = "run"
  /\ LET i == pos[c] + 1
         e == loan[c]
         o == IF i <= Len(code[c]) THEN code[c][i] ELSE OpRet(JsUndefined)
         mine == {x[2] : x \in got[c]}
     IN
       IF Outcome(o) = NoSettle
         THEN /\ pos' = [pos EXCEPT ![c] = i]
              /\ logs' =
                   CASE o.op = "log" ->
                          [logs EXCEPT ![LogTarget(jail[e])] = Push(@, Line(c, i))]
                     [] o.op = "logr" ->
                          [logs EXCEPT ![LogTarget(jail[e])] =
                             Push(@, Shown(got[c], heap[c], 0))]
                     [] o.op = "print" ->
                          [logs EXCEPT ![LogTarget(jail[e])] =
                             Push(@, LogEntry(Forwarded(o.s, Arguments[o.v.n])))]
                     [] OTHER -> logs
              /\ jail' = IF o.op = "set"
                    THEN [jail EXCEPT ![e].globals = @ \cup {c}]
                    ELSE jail
              /\ pending' = IF o.op \in {"call", "par"}
                    THEN [pending EXCEPT ![c] = Requests(o)]
                    ELSE pending
              /\ got' = IF o.op \in {"call", "par"}
                    THEN [got EXCEPT ![c] = {}]
                    ELSE got
              /\ callee' = IF o.op \in {"call", "par"}
                    THEN [callee EXCEPT ![c] = Applied(jail[e], o.s)]
                    ELSE callee
              /\ heap' =
                   CASE o.op \in {"call", "par"} -> [heap EXCEPT ![c] = <<>>]
                     [] o.op = "mut" ->
                          [heap EXCEPT ![c] =
                             [r \in DOMAIN heap[c] |->
                                IF r \in mine THEN "guest" ELSE heap[c][r]]]
                     [] OTHER -> heap
              /\ pc' = [pc EXCEPT ![c] =
                   CASE o.op \in {"call", "par"} -> "wait"
                     [] o.op = "loop" -> "spin"
                     [] o.op = "pend" -> "pend"
                     [] OTHER -> "run"]
              /\ UNCHANGED <<pool, isolate, loan, svc, code, failed>>
              /\ last' = NoLast
         ELSE /\ LET dead == IF o.op = "alloc"
                               THEN [isolate EXCEPT ![e] = "disposed"]
                               ELSE isolate
                 IN \E st \in Outcomes(o) :
                      Complete(c, st, dead, jail, failed[c])
  /\ UNCHANGED <<disposals, hosts, http>>

(* The handler of lines 339-343 (346-352) resolves for one of the requests *)
(* of call c: its result is copied into the guest heap and settles the     *)
(* promise of the stub; the script goes on when the statement has all its  *)
(* values.                                                                 *)
HandlerResolve(c) ==
  /\ pc[c] = "wait"
  /\ \E a \in pending[c] :
       LET p == Settles(a, Open(c))
           h == HostRef(a)
           r == copyInto(h)
       IN /\ heap' = [heap EXCEPT ![c] =
                        (r :> Reply(a)) @@ (h :> Reply(a)) @@ heap[c]]
          /\ got' = [got EXCEPT ![c] = @ \cup {<<p, r>>}]
          /\ pending' = [pending EXCEPT ![c] = @ \ {a}]
          /\ pc' = [pc EXCEPT ![c] = IF pending[c] = {a} THEN "run" ELSE "wait"]
  /\ UNCHANGED <<pool, isolate, jail, loan, svc, code, pos, logs, failed,
                 callee, disposals>>
  /\ UNCHANGED <<hosts, http>>
  /\ last' = NoLast

(* A bridge that hides the message of the handler.                         *)
RejectionOpaque(msg) == "Error"

(* What the guest sees when the handler fails with msg: the message of the *)
(* rejection of the stub's promise.                                        *)
Rejection(msg) == msg

(* The handler rejects with msg: the promise of the stub is rejected; a    *)
(* catching script logs e.message and goes on, otherwise the rejection     *)
(* leaves the async wrapper, script.run rejects and execute() goes on with *)
(* lines 395-404.                                                          *)
HandlerReject(c, msg) ==
  /\ pc[c] = "wait"
  /\ IF code[c][pos[c]].b
       THEN /\ logs' = [logs EXCEPT ![LogTarget(jail[loan[c]])] =
                          Push(@, Rejection(msg))]
            /\ failed' = [failed EXCEPT ![c] = Append(@, msg)]
            /\ pending' = [pending EXCEPT ![c] = {}]
            /\ pc' = [pc EXCEPT ![c] = "run"]
            /\ UNCHANGED <<pool, isolate, loan, svc, code, pos, got, heap,
                           callee>>
            /\ last' = NoLast
            /\ UNCHANGED jail
       ELSE Complete(c, Rejected(Rejection(msg)), isolate, jail, Append(failed[c], msg))
  /\ UNCHANGED <<disposals, hosts, http>>

(* The timeout of script.run ends a script that spins in its synchronous   *)
(* run: script.run rejects and execute() goes on with lines 395-404.       *)
Timeout(c) ==
  /\ pc[c] = "spin"
  /\ TimeoutArmed(code[c], pos[c])
  /\ Complete(c, Rejected(ErrTimeout), isolate, jail, failed[c])
  /\ UNCHANGED <<disposals, hosts, http>>

(* ------------------------------ dispose() ------------------------------ *)
(* Lines 407-413.  isolate.dispose() throws on a disposed isolate: the     *)
(* loop then stops there and this.pool is not reset.                       *)
RECURSIVE DisposeLoop(_, _, _)
DisposeLoop(p, i, iso) ==
  IF i > Len(p) THEN [pool |-> <<>>, isolate |-> iso]
  ELSE IF iso[p[i]] = "disposed" THEN [pool |-> p, isolate |-> iso]
  ELSE DisposeLoop(p, i + 1, [iso EXCEPT ![p[i]] = "disposed"])

Dispose ==
  /\ disposals < MaxDispose
  /\ disposals' = disposals + 1
  /\ LET r == DisposeLoop(pool, 1, isolate) IN
       /\ pool' = r.pool
       /\ isolate' = r.isolate
  /\ UNCHANGED <<jail, pc, loan, svc, code, pos, logs, failed, bridge>>
  /\ UNCHANGED <<hosts, http>>
  /\ last' = NoLast

(* --------------------------- the Jira service -------------------------- *)
(* A new session: getJiraService, mcp-server.ts lines 24-40, and the       *)
(* constructor of JiraService, lines 31-39, under the environment env.     *)
NewJiraService(s, env) ==
  /\ s \notin sessions
  /\ sessions' = sessions \cup {s}
  /\ readonly' = [readonly EXCEPT ![s] = ReadonlyOf(env)]
  /\ fieldCache' = [fieldCache EXCEPT ![s] = {}]
  /\ fieldCacheLoaded' = [fieldCacheLoaded EXCEPT ![s] = FALSE]
  /\ reply' = NoReply
  /\ UNCHANGED <<lookups, wire>>
  /\ UNCHANGED <<sandbox, weather, http>>

(* One call of jiraService.request(method, path) made by `via`.            *)
Requested(via, s, method, path) ==
  /\ s \in sessions
  /\ Len(wire) < MaxWire
  /\ LET r == Request(s, readonly[s], method, path) IN
       /\ wire' = wire \o r.sent
       /\ reply' = [via |-> via, svc |-> s, method |-> method, path |-> path,
                    kind |-> r.kind, error |-> r.error]
  /\ UNCHANGED <<sessions, readonly, fieldCache, fieldCacheLoaded, lookups>>
  /\ UNCHANGED <<sandbox, weather, http>>

(* The jira_execute tool, mcp-server.ts lines 268-278.                     *)
JiraExecute(s, method, path) == Requested("jira_execute", s, method, path)

(* The handler of jira_api, lines 346-352, called from a script.           *)
JiraApi(s, method, path) == Requested("jira_api", s, method, path)

(* jiraService.search(jql), lines 99-126, of the jira_search tool and of   *)
(* the handler of jira_search, lines 339-342.                              *)
JiraSearch(s) == Requested("jira_search", s, "POST", SearchPath)

(* this.fieldCache.has(key) and .get(key), on the map as a set of pairs.   *)
Has(cache, key) == \E f \in cache : f[1] = key
Get(cache, key) == (CHOOSE f \in cache : f[1] = key)[2]

(* The last line of getFieldId, line 57: this.fieldCache.get(key) || null. *)
GetOrNull(cache, key) == IF Has(cache, key) THEN Get(cache, key) ELSE "null"

(* getFieldId(fieldName), lines 45-58, up to its await: the answer from    *)
(* the cache, or discoverFields(), lines 74-80, which sends                *)
(* GET /rest/api/2/field and waits.                                        *)
GetFieldId(l, s, fieldName) ==
  /\ lookups[l].pc = "idle"
  /\ \A k \in Lookups : k < l => lookups[k].pc # "idle"
  /\ s \in sessions
  /\ LET key == toLowerCase(fieldName) IN
       IF Has(fieldCache[s], key)
         THEN /\ lookups' = [lookups EXCEPT ![l] =
                    [pc |-> "done", svc |-> s, key |-> key,
                     result |-> Get(fieldCache[s], key)]]
              /\ UNCHANGED <<wire, fieldCacheLoaded>>
         ELSE IF ~fieldCacheLoaded[s]
           THEN /\ Len(wire) < MaxWire
                /\ wire' = wire \o Request(s, readonly[s], "GET", FieldPath).sent
                /\ UNCHANGED fieldCacheLoaded
                /\ lookups' = [lookups EXCEPT ![l] =
                      [pc |-> "discover", svc |-> s, key |-> key,
                       result |-> None]]
           ELSE /\ lookups' = [lookups EXCEPT ![l] =
                      [pc |-> "done", svc |-> s, key |-> key,
                       result |-> GetOrNull(fieldCache[s], key)]]
                /\ UNCHANGED <<wire, fieldCacheLoaded>>
  /\ reply' = NoReply
  /\ UNCHANGED <<sessions, readonly, fieldCache>>
  /\ UNCHANGED <<sandbox, weather, http>>

(* The answer to the field-list request of lookup l arrives: lines 82-90   *)
(* when it is the list (ok), the catch block of lines 91-93 otherwise;     *)
(* getFieldId then returns, line 57.                                       *)
FieldListResponse(l, ok) ==
  /\ lookups[l].pc = "discover"
  /\ LET s == lookups[l].svc
         filled == IF ok
                     THEN fieldCache[s] \cup
                            {<<toLowerCase(f[1]), f[2]>> : f \in ServerFields}
                     ELSE fieldCache[s]
     IN /\ fieldCache' = [fieldCache EXCEPT ![s] = filled]
        /\ fieldCacheLoaded' =
             [fieldCacheLoaded EXCEPT ![s] = IF ok THEN TRUE ELSE @]
        /\ lookups' = [lookups EXCEPT ![l] =
              [@ EXCEPT !.pc = "done",
                        !.result = GetOrNull(filled, lookups[l].key)]]
  /\ reply' = NoReply
  /\ UNCHANGED <<sessions, readonly, wire>>
  /\ UNCHANGED <<sandbox, weather, http>>

(* --------------------------- the weather service ----------------------- *)
(* One call of getWeather(city), lines 34-50, as the handler of            *)
(* get_weather makes it (part_002 lines 75-78).                            *)
GetWeather(city) ==
  /\ weather' = getWeather(city)
  /\ UNCHANGED <<sandbox, jira, http>>

(* ------------------- the session layer: its handlers ------------------- *)
(* A check that lets every request pass.                                   *)
getJiraServiceLax(pat, url) == None

(* getJiraService, lines 24-40: the message it throws for the header pat   *)
(* and the environment value url (None: it returns a JiraService).  An     *)
(* absent and an empty value are falsy alike.                              *)
getJiraServiceError(pat, url) ==
  IF pat \in {None, ""} THEN ErrNoPat
  ELSE IF url \in {None, ""} THEN ErrNoUrl
  ELSE None

(* A lookup that finds no session.                                         *)
KnownNever(reg, id) == FALSE

(* sessionId && sessions.has(sessionId), lines 365, 407 and 420.           *)
Known(reg, id) == id # None /\ Has(reg, id)

(* An onclose handler that leaves the registry as it is.                   *)
OnCloseKeeps(reg, x) == reg

(* transport.onclose, lines 389-395: the entry of transport x, if there is *)
(* one, is deleted.                                                        *)
OnClose(reg, x) ==
  LET ids == {en[1] : en \in {f \in reg : f[2] = x}} IN
    IF ids = {} THEN reg
    ELSE LET id == CHOOSE i \in ids : TRUE IN {en \in reg : en[1] # id}

(* sessions.set(id, entry) and sessions.delete(id).                        *)
MapSet(reg, id, x) == {en \in reg : en[1] # id} \cup {<<id, x>>}
MapDelete(reg, id) == {en \in reg : en[1] # id}

(* The ids sessionIdGenerator has not returned yet: a time stamp and a     *)
(* random suffix, taken not to repeat.                                     *)
Unused == SessionIds \ {transport[x].id : x \in Transports}

Exchange(method, id, body, pat, url, status, by, error) ==
  [method |-> method, id |-> id, body |-> body, pat |-> pat, url |-> url,
   status |-> status, by |-> by, error |-> error]

(* handleMcpPost, lines 359-400, up to the await of transport.handleRequest:*)
(* a request of a registered session goes to its transport; otherwise      *)
(* getJiraService, a new transport with its callbacks, a new server        *)
(* connected to it, and the request handed to the new transport.  env is   *)
(* JIRA_READONLY.                                                          *)
HandleMcpPost(id, body, pat, url, env) ==
  IF Known(registry, id)
    THEN /\ exchange' = Exchange("POST", id, body, pat, url, 0,
                                 Get(registry, id), None)
         /\ UNCHANGED <<registry, transport, servers>>
         /\ UNCHANGED <<sandbox, jira, weather>>
    ELSE IF getJiraServiceError(pat, url) # None
      THEN /\ exchange' = Exchange("POST", id, body, pat, url, 400, 0,
                                   getJiraServiceError(pat, url))
           /\ UNCHANGED <<registry, transport, servers>>
           /\ UNCHANGED <<sandbox, jira, weather>>
      ELSE \E x \in Transports :
             /\ x \notin sessions
             /\ \A y \in Transports : y < x => y \in sessions
             /\ sessions' = sessions \cup {x}
             /\ readonly' = [readonly EXCEPT ![x] = ReadonlyOf(env)]
             /\ fieldCache' = [fieldCache EXCEPT ![x] = {}]
             /\ fieldCacheLoaded' = [fieldCacheLoaded EXCEPT ![x] = FALSE]
             /\ reply' = NoReply
             /\ UNCHANGED <<lookups, wire>>
             /\ transport' = [transport EXCEPT ![x] =
                   [state |-> "open", id |-> None, handling |-> body]]
             /\ servers' = servers \cup {x}
             /\ exchange' = Exchange("POST", id, body, pat, url, 0, x, None)
             /\ UNCHANGED registry
             /\ UNCHANGED <<sandbox, weather>>

(* The new transport x handles the request it was created for, line 399:   *)
(* for an initialize request it takes an id from sessionIdGenerator and    *)
(* calls onsessioninitialized, lines 383-386, which registers it; any      *)
(* other request it refuses.                                               *)
HandleRequest(x) ==
  /\ transport[x].state = "open"
  /\ transport[x].handling # "none"
  /\ IF transport[x].handling = "initialize"
       THEN \E id \in Unused :
              /\ transport' = [transport EXCEPT ![x] =
                    [state |-> "open", id |-> id, handling |-> "none"]]
              /\ registry' = MapSet(registry, id, x)
       ELSE /\ transport' = [transport EXCEPT ![x].handling = "none"]
            /\ UNCHANGED registry
  /\ UNCHANGED <<servers, exchange>>
  /\ UNCHANGED <<sandbox, jira, weather>>

(* handleMcpGet, lines 402-413.                                            *)
HandleMcpGet(id) ==
  /\ exchange' =
       IF ~Known(registry, id)
         THEN Exchange("GET", id, None, None, None, 400, 0, ErrNoSession)
         ELSE Exchange("GET", id, None, None, None, 0, Get(registry, id), None)
  /\ UNCHANGED <<registry, transport, servers>>
  /\ UNCHANGED <<sandbox, jira, weather>>

(* handleMcpDelete, lines 415-429: transport.close(), which calls onclose, *)
(* then sessions.delete and the 200; 404 for an id that is not registered. *)
HandleMcpDelete(id) ==
  /\ IF Known(registry, id)
       THEN LET x == Get(registry, id) IN
              /\ transport' = [transport EXCEPT ![x].state = "closed",
                                                ![x].handling = "none"]
              /\ registry' = MapDelete(OnClose(registry, x), id)
              /\ exchange' = Exchange("DELETE", id, None, None, None, 200, x, None)
       ELSE /\ exchange' = Exchange("DELETE", id, None, None, None, 404, 0, None)
            /\ UNCHANGED <<registry, transport>>
  /\ UNCHANGED servers
  /\ UNCHANGED <<sandbox, jira, weather>>

(* The initialized transport x is closed by its server, not by a DELETE:   *)
(* close() calls onclose, lines 389-395.                                   *)
TransportClosed(x) ==
  /\ transport[x].state = "open"
  /\ transport[x].id # None
  /\ transport' = [transport EXCEPT ![x].state = "closed"]
  /\ registry' = OnClose(registry, x)
  /\ UNCHANGED <<servers, exchange>>
  /\ UNCHANGED <<sandbox, jira, weather>>

(* ---------------------------- specifications --------------------------- *)
(* The guest-level specification: every way a run can end, dispose().      *)
Next ==
  \/ \E c \in 1..MaxCalls, text \in Scripts : Execute(c, 1, text)
  \/ \E c \in 1..MaxCalls : Bind(c)
  \/ \E c \in 1..MaxCalls : GuestStep(c)
  \/ \E c \in 1..MaxCalls : Timeout(c)
  \/ Dispose

Spec == Init /\ [][Next]_vars

(* The same under the scheduling of Node.js and isolated-vm: a settled     *)
(* await is continued, a runnable script runs, an armed timeout fires.     *)
FairSpec ==
  /\ Spec
  /\ \A c \in 1..MaxCalls :
       WF_vars(Bind(c)) /\ WF_vars(GuestStep(c)) /\ WF_vars(Timeout(c))

(* The bridge-level specification: scripts that call capabilities, of two  *)
(* services.                                                               *)
NextBridge ==
  \/ \E c \in 1..MaxCalls, s \in Services, text \in BridgeScripts :
       Execute(c, s, text)
  \/ \E c \in 1..MaxCalls : Bind(c)
  \/ \E c \in 1..MaxCalls : GuestStep(c)
  \/ \E c \in 1..MaxCalls : HandlerResolve(c)
  \/ \E c \in 1..MaxCalls, msg \in HandlerErrors : HandlerReject(c, msg)
  \/ Dispose

SpecBridge == Init /\ [][NextBridge]_vars

(* The log-level specification: scripts that log, call and fail.           *)
NextLogs ==
  \/ \E c \in 1..MaxCalls, text \in LogScripts : Execute(c, 1, text)
  \/ \E c \in 1..MaxCalls : Bind(c)
  \/ \E c \in 1..MaxCalls : GuestStep(c)
  \/ \E c \in 1..MaxCalls : HandlerResolve(c)
  \/ \E c \in 1..MaxCalls, msg \in HandlerErrors : HandlerReject(c, msg)
  \/ \E c \in 1..MaxCalls : Timeout(c)

SpecLogs == Init /\ [][NextLogs]_vars

(* The value-level specification: scripts that resolve to the values of    *)
(* each kind.                                                              *)
NextValue ==
  \/ \E c \in 1..MaxCalls, text \in ValueScripts : Execute(c, 1, text)
  \/ \E c \in 1..MaxCalls : Bind(c)
  \/ \E c \in 1..MaxCalls : GuestStep(c)
  \/ \E c \in 1..MaxCalls : HandlerResolve(c)

SpecValue == Init /\ [][NextValue]_vars

(* The call-level specification: several requests of one run in flight.    *)
NextCalls ==
  \/ \E c \in 1..MaxCalls, text \in CallScripts : Execute(c, 1, text)
  \/ \E c \in 1..MaxCalls : Bind(c)
  \/ \E c \in 1..MaxCalls : GuestStep(c)
  \/ \E c \in 1..MaxCalls : HandlerResolve(c)
  \/ \E c \in 1..MaxCalls, msg \in HandlerErrors : HandlerReject(c, msg)

SpecCalls == Init /\ [][NextCalls]_vars

(* The pool-level specification: enough concurrent calls to fill the pool. *)
NextPool ==
  \/ \E c \in 1..PoolCalls, text \in PoolScripts : Execute(c, 1, text)
  \/ \E c \in 1..PoolCalls : Bind(c)
  \/ \E c \in 1..PoolCalls : GuestStep(c)

SpecPool == Init /\ [][NextPool]_vars

(* The same with scripts that exceed the memory limit.                     *)
NextTrap ==
  \/ \E c \in 1..PoolCalls, text \in TrapScripts : Execute(c, 1, text)
  \/ \E c \in 1..PoolCalls : Bind(c)
  \/ \E c \in 1..PoolCalls : GuestStep(c)

SpecTrap == Init /\ [][NextTrap]_vars

(* The tool-level specification: scripts that call what the sandbox        *)
(* offers, one function each.                                              *)
NextTools ==
  \/ \E c \in 1..MaxCalls, text \in ToolScripts : Execute(c, 1, text)
  \/ \E c \in 1..MaxCalls : Bind(c)
  \/ \E c \in 1..MaxCalls : GuestStep(c)
  \/ \E c \in 1..MaxCalls : HandlerResolve(c)
  \/ \E c \in 1..MaxCalls, msg \in HandlerErrors : HandlerReject(c, msg)

SpecTools == Init /\ [][NextTools]_vars

(* The report-level specification: runs of either ending, reported by the  *)
(* code_execution tool.                                                    *)
NextReport ==
  \/ \E c \in 1..MaxCalls, text \in ReportScripts : Execute(c, 1, text)
  \/ \E c \in 1..MaxCalls : Bind(c)
  \/ \E c \in 1..MaxCalls : GuestStep(c)
  \/ \E c \in 1..MaxCalls : Timeout(c)

SpecReport == Init /\ [][NextReport]_vars

(* The request-level specification: the calls that reach                  *)
(* JiraService.request, from the tools and from scripts.                   *)
NextWrites ==
  \/ \E s \in Services, env \in EnvValues : NewJiraService(s, env)
  \/ \E s \in Services, m \in ToolMethods, p \in Paths : JiraExecute(s, m, p)
  \/ \E s \in Services, m \in GuestMethods, p \in Paths : JiraApi(s, m, p)
  \/ \E s \in Services : JiraSearch(s)

SpecWrites == Init /\ [][NextWrites]_vars

(* The weather-level specification: getWeather for every city name of the *)
(* model.                                                                  *)
NextWeather == \E city \in Cities : GetWeather(city)

SpecWeather == Init /\ [][NextWeather]_vars

(* The shutdown-level specification: dispose() while calls are in flight,  *)
(* and no execute() call after it.                                         *)
NextShutdown ==
  \/ \E c \in 1..MaxCalls, text \in BridgeScripts :
       disposals = 0 /\ Execute(c, 1, text)
  \/ \E c \in 1..MaxCalls : Bind(c)
  \/ \E c \in 1..MaxCalls : GuestStep(c)
  \/ \E c \in 1..MaxCalls : HandlerResolve(c)
  \/ \E c \in 1..MaxCalls, msg \in HandlerErrors : HandlerReject(c, msg)
  \/ Dispose

SpecShutdown == Init /\ [][NextShutdown]_vars

(* The session-level specification: the requests to /mcp of the Jira       *)
(* server, with and without credentials, and the callbacks of the          *)
(* transports.                                                             *)
NextSessions ==
  \/ \E id \in HeaderIds, body \in Bodies, pat \in Pats, url \in Urls,
        env \in {None, "false"} : HandleMcpPost(id, body, pat, url, env)
  \/ \E x \in Transports : HandleRequest(x)
  \/ \E id \in HeaderIds : HandleMcpGet(id)
  \/ \E id \in HeaderIds : HandleMcpDelete(id)
  \/ \E x \in Transports : TransportClosed(x)

SpecSessions == Init /\ [][NextSessions]_vars

(* The field-level specification: getFieldId calls of the sessions, in any *)
(* interleaving with the answers of Jira.                                  *)
NextFields ==
  \/ \E s \in Services, env \in EnvValues : NewJiraService(s, env)
  \/ \E l \in Lookups, s \in Services, f \in FieldNames : GetFieldId(l, s, f)
  \/ \E l \in Lookups, ok \in BOOLEAN : FieldListResponse(l, ok)

SpecFields == Init /\ [][NextFields]_vars

(* ------------------------------ properties ----------------------------- *)
OnLoan(e) == \E c \in Calls : loan[c] = e
InFlight(c) == pc[c] \notin {"idle", "done"}
Completed == last.call # 0

(* C1: the pool never holds more than maxPoolSize idle engines; a release  *)
(* disposes the engine, and leaves it out of the pool, only when it found  *)
(* the pool holding maxPoolSize engines, and otherwise pushes it.          *)
PoolWithinMax ==
  /\ Len(pool) <= maxPoolSize
  /\ last.did = "disposed" =>
       /\ Len(pool) = maxPoolSize
       /\ isolate[last.loan] = "disposed"
       /\ ~InPool(last.loan)
  /\ last.did = "pooled" => Len(pool) > 0 /\ Last(pool) = last.loan

(* A release found the pool full and disposed its engine.                  *)
ReleasedIntoFullPool == last.did = "disposed" /\ Len(pool) = maxPoolSize

(* C2: no engine is on loan to two in-flight calls, none is both idle in   *)
(* the pool and on loan, none is in the pool twice; a call is in flight    *)
(* exactly while it holds an engine.                                       *)
LoansExclusive ==
  /\ \A c, d \in Calls : c # d /\ loan[c] # 0 => loan[c] # loan[d]
  /\ \A c \in Calls : loan[c] # 0 => ~InPool(loan[c])
  /\ \A i, j \in 1..Len(pool) : i # j => pool[i] # pool[j]
  /\ \A c \in Calls : InFlight(c) <=> loan[c] # 0

(* Two scripts run at the same time, each in its own engine.               *)
TwoRunsAtOnce ==
  \E c, d \in Calls :
    c # d /\ pc[c] = "run" /\ pc[d] = "run" /\ loan[c] # loan[d]

(* C3: every call that has acquired an engine eventually releases it.      *)
EveryLoanReleased ==
  \A c \in 1..MaxCalls : (loan[c] # 0) ~> (loan[c] = 0)

(* C4: execute() never raises to its caller: every completion hands over   *)
(* a result object.                                                        *)
NeverRaises == Completed => last.result.kind = "returned"

(* C5: a returned result is a success (error unset, output the string of   *)
(* the value the script resolved to) exactly when script.run resolved, and *)
(* a failure (error set, output empty) exactly when an await of the try    *)
(* block rejected.                                                         *)
TwoShapes ==
  Completed /\ last.result.kind = "returned" =>
    IF last.settle.kind = "resolved"
      THEN /\ last.result.error = None
           /\ last.result.output # None
           /\ last.settle.v.t = "number" =>
                last.result.output = ToString(last.settle.v.n)
           /\ last.settle.v.t = "undefined" =>
                last.result.output \in
                  {"undefined"} \cup {last.logs[i] : i \in 1..Len(last.logs)}
      ELSE /\ last.settle.kind = "rejected"
           /\ last.result.error # None
           /\ last.result.error = last.settle.msg
           /\ last.result.output = ""

(* A run whose script threw was returned as a failure.                     *)
FailureReturned ==
  /\ Completed
  /\ last.code = <<OpSet, OpThrow("boom")>>
  /\ last.result = [kind |-> "returned", output |-> "", error |-> "boom"]

(* C6: a running script sees exactly `global` and the three references     *)
(* bound for its own call and service, no global property but its own,    *)
(* and its logs hold nothing but what it and the handlers it called        *)
(* produced.                                                               *)
FreshContext ==
  \A c \in Calls : pc[c] \in {"run", "wait", "spin", "pend"} =>
    /\ jail[loan[c]].stubs =
         {<<"global", 0>>, <<"_log", c>>,
          <<"_jiraSearch", svc[c]>>, <<"_jiraApi", svc[c]>>}
    /\ jail[loan[c]].globals \subseteq {c}
    /\ \A i \in 1..Len(logs[c]) :
         logs[c][i] \in {Line(c, n) : n \in 1..Len(code[c])} \cup HandlerErrors

(* A script runs on an engine on which an earlier run, for another         *)
(* service, left its references and a global property.                     *)
RunsOnUsedEngine ==
  \E c \in Calls : \E d \in Calls \ {c} : \E s \in Services \ {svc[c]} :
    /\ pc[c] = "run"
    /\ {<<"_jiraApi", s>>, <<"_log", 0>>, <<"var", d>>}
         \subseteq jail[loan[c]].older

(* C7: a run on a reused engine ends as on a new one, whatever ran on the  *)
(* engine before: `return 42` returns 42.                                  *)
FailureContained ==
  Completed /\ last.code = <<OpRet(JsNumber(42))>> =>
    last.result = [kind |-> "returned", output |-> "42", error |-> None]

(* C8: a live engine is idle in the pool or on loan, a disposed engine is  *)
(* neither.                                                                *)
EnginesAccounted ==
  \A e \in Engines :
    /\ isolate[e] = "live" => InPool(e) \/ OnLoan(e)
    /\ isolate[e] = "disposed" => ~InPool(e) /\ ~OnLoan(e)

(* C9: a script that does not finish is ended: its call completes with the *)
(* timeout error.                                                          *)
OverrunEndsInTimeout ==
  \A c \in 1..MaxCalls :
    (pc[c] \in {"spin", "pend"}) ~>
      (last.call = c /\ last.result.error = ErrTimeout /\ loan[c] = 0)

(* C10: a script that catches the failure of a handler and logs e.message  *)
(* has the messages its handlers failed with in its logs, followed by what *)
(* it logged after the catch, and its run succeeds.                        *)
HandlerFailureCaught ==
  Completed /\ last.code = <<OpSet, OpCall(TRUE), OpLog>> =>
    /\ last.logs = last.failed \o <<Line(last.call, 3)>>
    /\ last.result.error = None
    /\ last.result.output = Line(last.call, 3)

(* A handler failed, the script caught it and went on to succeed.          *)
CaughtAndSucceeded ==
  /\ Completed
  /\ last.code = <<OpSet, OpCall(TRUE), OpLog>>
  /\ last.failed = <<ErrReadonly>>
  /\ last.logs = <<ErrReadonly, Line(last.call, 3)>>
  /\ last.result.error = None

(* The text of the answers to the requests of statement o from k on, as    *)
(* console.log prints them.                                                *)
RECURSIVE Answers(_, _)
Answers(o, k) ==
  IF \A a \in Requests(o) : a < k THEN ""
  ELSE (IF k \in Requests(o) THEN Reply(k) ELSE "")
       \o (IF k \in Requests(o) /\ \E a \in Requests(o) : a > k THEN "," ELSE "")
       \o Answers(o, k + 1)

(* The last statement before statement i of text that sends requests.      *)
Asked(text, i) ==
  text[CHOOSE j \in 1..(i - 1) :
         /\ Requests(text[j]) # {}
         /\ \A k \in (j + 1)..(i - 1) : Requests(text[k]) = {}]

(* The lines the first n statements of text print when call c runs them    *)
(* and its handlers answer.                                                *)
RECURSIVE Emitted(_, _, _)
Emitted(text, c, n) ==
  IF n = 0 THEN <<>>
  ELSE Emitted(text, c, n - 1) \o
         (CASE text[n].op = "log" -> <<Line(c, n)>>
            [] text[n].op = "logr" -> <<Answers(Asked(text, n), 0)>>
            [] OTHER -> <<>>)

(* C11: a failed run returns, as its logs, the lines its script printed    *)
(* before the failure, in order (none when the text did not compile), and  *)
(* the tool response of the failure is the error followed by those lines.  *)
FailureKeepsLogs ==
  Completed /\ last.result.kind = "returned" /\ last.settle.kind = "rejected" =>
    /\ last.logs = Emitted(last.code, last.call, last.at)
    /\ ~Compiles(last.code) => last.logs = <<>>
    /\ ToolResponse(last.result, last.logs) =
         [isError |-> TRUE,
          text |-> "Error: " \o last.settle.msg \o "\n\nLogs:\n"
                     \o Join(Emitted(last.code, last.call, last.at), "\n")]

(* A script timed out after printing two lines.                            *)
FailedAfterTwoLines ==
  /\ Completed
  /\ last.result.error = ErrTimeout
  /\ last.logs = <<Line(last.call, 1), Line(last.call, 2)>>

(* C12: the logs of a run are the lines of its log statements in the order *)
(* of the script, each value of an awaited call printed by the statement   *)
(* that follows its await: while the script runs and when it has ended.    *)
LogsInScriptOrder ==
  /\ \A c \in Calls : pc[c] \in {"run", "wait", "spin", "pend"} =>
       logs[c] = Emitted(code[c], c, pos[c])
  /\ Completed /\ last.settle.kind = "resolved" =>
       last.logs = Emitted(last.code, last.call, Len(last.code))

(* A script printed a line, then the value of each of two awaited calls.   *)
LoggedAroundAwaits ==
  /\ Completed
  /\ last.result.error = None
  /\ last.logs = <<Line(last.call, 1), Reply(1), Reply(2)>>

(* The value the last statement of text returns; undefined when the script *)
(* runs off its end.                                                       *)
ReturnValue(text) ==
  IF Len(text) > 0 /\ Last(text).op = "ret" THEN Last(text).v ELSE JsUndefined

(* JSON.parse(text), for the texts of the composite values of the model:   *)
(* the value, whatever the white space; anything else is no composite.     *)
JsonParse(text) ==
  IF \E x \in Composites : text \in {x, Stringify2(x)}
    THEN JsObject(CHOOSE x \in Composites : text \in {x, Stringify2(x)})
    ELSE JsUndefined

(* C13: a run whose script ends normally succeeds, and its output is the   *)
(* last log line (or 'undefined' when there is none) for undefined and     *)
(* null, the formatted JSON text for a composite value, the string of the  *)
(* value for a primitive; a script that awaits a call and prints its value *)
(* has that text as its only log line and as its output.                   *)
OutputDerivation ==
  Completed /\ last.code \in ValueScripts =>
    LET v == ReturnValue(last.code) IN
      /\ last.result.kind = "returned"
      /\ last.result.error = None
      /\ v.t \in {"undefined", "null"} /\ Len(last.logs) > 0 =>
           last.result.output = Last(last.logs)
      /\ v.t \in {"undefined", "null"} /\ Len(last.logs) = 0 =>
           last.result.output = "undefined"
      /\ v.t = "object" => last.result.output = Stringify2(v.s)
      /\ v.t = "number" => last.result.output = ToString(v.n)
      /\ v.t = "string" => last.result.output = v.s
      /\ last.code = <<OpAsk(21), OpLogR>> =>
           last.logs = <<Reply(21)>> /\ last.result.output = Reply(21)

(* C14: a script that returns a composite value succeeds with an output    *)
(* that parses to that value.                                              *)
CompositeRoundTrip ==
  \A x \in Composites :
    Completed /\ last.code = <<OpRet(JsObject(x))>> =>
      /\ last.result.error = None
      /\ JsonParse(last.result.output) = JsObject(x)

(* A text with a statement that does not parse.                            *)
Malformed(text) == \E i \in 1..Len(text) : text[i].op = "syntax"

(* C15: a text that does not compile runs no statement: while its call is  *)
(* in flight nothing is printed and no handler is asked, and the call ends *)
(* with the syntax error as its error, no output, no logs, and its engine  *)
(* released.                                                               *)
CompileFailureRunsNothing ==
  /\ \A c \in Calls : InFlight(c) /\ Malformed(code[c]) =>
       /\ pc[c] = "bind"
       /\ pos[c] = 0
       /\ logs[c] = <<>>
       /\ pending[c] = {}
  /\ Completed /\ Malformed(last.code) =>
       /\ last.result = [kind |-> "returned", output |-> "", error |-> ErrSyntax]
       /\ last.logs = <<>>
       /\ last.failed = <<>>
       /\ last.at = 0
       /\ last.did \in {"pooled", "disposed"}
       /\ last.did = "pooled" => InPool(last.loan)
       /\ ~OnLoan(last.loan)

(* A text whose second statement does not parse was refused.               *)
CompileFailureReturned ==
  /\ Completed
  /\ last.code = <<OpLog, OpSyntax>>
  /\ last.result.error = ErrSyntax

(* C16: whatever the calls in flight do, the next execute() call can be    *)
(* made and gets an engine at once: every call in flight holds a           *)
(* constructed engine of its own.                                          *)
AcquireNeverBlocks ==
  /\ \A c \in 1..MaxCalls :
       pc[c] = "idle" /\ (\A d \in 1..(c - 1) : pc[d] # "idle") =>
         ENABLED Execute(c, 1, <<OpRet(JsNumber(42))>>)
  /\ \A c \in Calls : InFlight(c) =>
       /\ loan[c] \in Engines
       /\ isolate[loan[c]] # "none"
       /\ \A d \in Calls \ {c} : loan[d] # loan[c]

(* A call made while an earlier one waits for its handler has run and      *)
(* succeeded.                                                              *)
CompletedWhileOtherWaits ==
  /\ pc[1] = "wait"
  /\ last.call = 2
  /\ last.result.error = None

(* C17: a dispose() call disposes every engine that is idle in the pool    *)
(* and leaves the pool empty; on an empty pool it changes nothing.         *)
DisposeEmptiesPool ==
  [][disposals' # disposals =>
       /\ pool' = <<>>
       /\ \A i \in 1..Len(pool) : isolate'[pool[i]] = "disposed"
       /\ \A e \in Engines : ~InPool(e) => isolate'[e] = isolate[e]
       /\ pool = <<>> => isolate' = isolate]_vars

(* C18: each value a run has received is the answer to the request it      *)
(* stands for, whatever the order in which the handlers finished; a run    *)
(* that awaited two requests at once prints their answers in the order of  *)
(* the requests, or fails with the message of the handler that failed.     *)
EachPromiseItsOwnAnswer ==
  /\ \A c \in Calls : \A x \in got[c] :
       code[c][pos[c]].op = "par" => heap[c][x[2]] = Reply(x[1])
  /\ Completed /\ last.code = <<OpAll(2), OpLogR>> =>
       IF last.settle.kind = "resolved"
         THEN last.logs = <<Reply(1) \o "," \o Reply(2)>>
         ELSE last.result.error \in HandlerErrors /\ last.logs = <<>>

(* The handler of the second request finished before that of the first.    *)
AnsweredOutOfOrder ==
  \E c \in Calls :
    /\ pc[c] = "wait"
    /\ pending[c] = {1}
    /\ \E x \in got[c] : x[1] = 2 /\ heap[c][x[2]] = Reply(2)

(* C19: the logs of a run hold no line of another run, while it runs and   *)
(* when it is returned, and a returned run has as many lines as its script *)
(* printed.                                                                *)
LogsOfOwnRun ==
  LET longest == CHOOSE n \in {Len(s) : s \in LogScripts} :
                   \A s \in LogScripts : Len(s) <= n
      Foreign(c) == {Line(d, n) : d \in Calls \ {c}, n \in 1..longest}
  IN
    /\ \A c \in Calls : \A i \in 1..Len(logs[c]) : logs[c][i] \notin Foreign(c)
    /\ \A c \in Calls : ~InFlight(c) => logs[c] = <<>>
    /\ Completed =>
         /\ \A i \in 1..Len(last.logs) : last.logs[i] \notin Foreign(last.call)
         /\ Len(last.logs) = Len(Emitted(last.code, last.call, last.at))

(* A run was returned with its lines while another run had printed some.   *)
TwoRunsPrinted ==
  /\ Completed
  /\ Len(last.logs) > 0
  /\ \E d \in Calls \ {last.call} : Len(logs[d]) > 0

(* C20: what the guest holds is a copy in its own heap, never the object   *)
(* of the host: whatever the guest does to it, the object the handler      *)
(* returned is as the handler made it.                                     *)
NoSharedReference ==
  \A c \in Calls :
    /\ \A x \in got[c] : x[2][1] = "guest"
    /\ \A r \in DOMAIN heap[c] : r[1] = "host" => heap[c][r] = Reply(r[2])

(* The guest changed the value it received; the host's is as it was.       *)
GuestChangedItsCopy ==
  \E c \in Calls : \E x \in got[c] :
    /\ heap[c][x[2]] = "guest"
    /\ heap[c][HostRef(x[1])] = Reply(x[1])

(* C22: every function the code_execution tool advertises is defined for   *)
(* the script and its reference is bound in the context of the run; a      *)
(* script that awaits jira_field(name) succeeds.                           *)
AdvertisedAreBound ==
  /\ \A c \in Calls : pc[c] = "run" =>
       \A name \in Advertised :
         \E f \in GuestFunctions :
           /\ f[1] = name
           /\ \E st \in jail[loan[c]].stubs : st[1] = f[2]
  /\ Completed /\ last.code = <<OpField>> => last.result.error = None

(* A request as Jira receives it that changes nothing there: a GET, or the *)
(* JQL search POST.                                                        *)
IsRead(method, path) ==
  method = "GET" \/ (method = "POST" /\ path = SearchPath)

(* C21: no request of a readonly service other than a GET or the search    *)
(* POST reaches Jira, whoever made the call and however the method is      *)
(* spelled; such a call is rejected with the READONLY error, and a GET or  *)
(* a POST to '/rest/api/2/search' is never rejected.                       *)
ReadonlyBlocksWrites ==
  /\ \A i \in 1..Len(wire) :
       readonly[wire[i].svc] => IsRead(wire[i].method, wire[i].path)
  /\ reply.kind = "rejected" =>
       /\ reply.error = ErrReadonly
       /\ readonly[reply.svc]
       /\ ~IsRead(toUpperCase(reply.method), reply.path)
  /\ reply.kind = "sent" /\ readonly[reply.svc] =>
       IsRead(toUpperCase(reply.method), FullPath(reply.path))

(* The field-list requests service s has sent.                             *)
FieldListRequests(s) ==
  {i \in 1..Len(wire) :
     wire[i].svc = s /\ wire[i].method = "GET" /\ wire[i].path = FieldPath}

(* C23: a service sends the field-list request at most once, whatever the  *)
(* getFieldId calls made on it and however they interleave.                *)
FieldListOnce ==
  \A s \in Services : Cardinality(FieldListRequests(s)) <= 1

(* The entry a console call is to leave: the first element of its method,  *)
(* if any, and the strings of its arguments, joined by single spaces.      *)
EntryOf(method, args) ==
  LET lead == CASE method = "error" -> <<"ERROR:">>
                [] method = "warn" -> <<"WARN:">>
                [] OTHER -> <<>>
      rest == [i \in 1..Len(args) |->
                 IF args[i].t = "object" THEN args[i].s
                 ELSE IF args[i].t = "number" THEN ToString(args[i].n)
                 ELSE IF args[i].t = "string" THEN args[i].s
                 ELSE args[i].t]
  IN Join(lead \o rest, " ")

(* C25: a script that makes one console.log, console.error or console.warn *)
(* call succeeds with exactly one log entry: the stringified arguments,    *)
(* after 'ERROR:' or 'WARN:' for the latter two, joined by single spaces.  *)
OneEntryPerConsoleCall ==
  \A m \in {"log", "error", "warn"} : \A k \in DOMAIN Arguments :
    Completed /\ last.code = <<OpPrint(m, k)>> =>
      /\ last.result.error = None
      /\ last.logs = <<EntryOf(m, Arguments[k])>>

(* The engines constructed so far.                                         *)
Constructed == {e \in Engines : isolate[e] # "none"}

(* C24: the constructor leaves exactly warmCount engines, all idle in the  *)
(* pool; afterwards an engine is constructed only by an execute() call     *)
(* that finds the pool empty, one at a time, for that call.                *)
ConstructedOnDemand ==
  /\ Len(pool) = warmCount
  /\ Cardinality(Constructed) = warmCount
  /\ \A e \in Constructed : isolate[e] = "live" /\ InPool(e) /\ ~OnLoan(e)
  /\ [][\A e \in Engines :
          isolate[e] = "none" /\ isolate'[e] # "none" =>
            /\ pool = <<>>
            /\ \E c \in Calls : pc[c] = "idle" /\ loan'[c] = e
            /\ \A f \in Engines \ {e} : isolate'[f] = isolate[f]]_vars

(* A call found the pool empty and runs on an engine made for it.          *)
RunsOnNewEngine ==
  \E c \in Calls : pc[c] = "run" /\ loan[c] > warmCount /\ pool = <<>>

(* C26: a run that is ended for its time is ended at the budget the        *)
(* code_execution tool of its server advertises, 30 s for Jira and 5 s for *)
(* weather, and the engines have the advertised memory limit, 128 MB.      *)
BudgetAsAdvertised ==
  /\ Completed /\ last.result.error = ErrTimeout =>
       last.options.timeout = advertisedTimeoutMs
  /\ memoryLimitMb = advertisedMemoryMb
  /\ weatherTimeoutMs = weatherAdvertisedTimeoutMs
  /\ weatherMemoryLimitMb = weatherAdvertisedMemoryMb

(* The name with its capital letters replaced by the small ones.           *)
Folded(city) ==
  [i \in 1..Len(city) |-> IF city[i] = 68 THEN 100 ELSE city[i]]

(* C27: what getWeather returns for a city is what it returns for the name *)
(* in small letters; temp is in 20..39, humidity in 40..79 and condition   *)
(* is one of the eight conditions, whatever the hash of the name.          *)
WeatherByCityName ==
  weather # NoWeather =>
    /\ weather.temp \in 20..39
    /\ weather.humidity \in 40..79
    /\ \E i \in 1..8 : weather.condition = CONDITIONS[i]
    /\ LET other == getWeather(Folded(weather.city)) IN
         /\ weather.temp = other.temp
         /\ weather.humidity = other.humidity
         /\ weather.condition = other.condition
    /\ weather = getWeather(weather.city)

(* A name with a capital letter whose hash wrapped around to a negative    *)
(* int32 was answered.                                                     *)
CapitalWithNegativeHash ==
  /\ weather # NoWeather
  /\ \E i \in 1..Len(weather.city) : weather.city[i] = 68
  /\ Negative(HashLoop(Folded(weather.city), Len(weather.city)))

(* The steps of an execute() call: acquire; bind, compile and start the    *)
(* run (a failure of these ends the call); the run, with its waits; the    *)
(* end, where the engine is released and the result handed over.           *)
PhaseSteps ==
  {<<"idle", "bind">>, <<"bind", "run">>, <<"bind", "done">>,
   <<"run", "wait">>, <<"run", "spin">>, <<"run", "pend">>, <<"run", "done">>,
   <<"wait", "run">>, <<"wait", "done">>, <<"spin", "done">>}

(* C28: a call goes through acquire, bind and compile, run, and release in *)
(* that order, and only the step that releases its engine hands its result *)
(* to the caller: when the caller has the result the engine is no longer   *)
(* on loan, and is in the pool or disposed.                                *)
ReleasedBeforeResult ==
  /\ [](Completed =>
         /\ pc[last.call] = "done"
         /\ ~OnLoan(last.loan)
         /\ InPool(last.loan) \/ isolate[last.loan] = "disposed"
         /\ last.did = "pooled" => Last(pool) = last.loan)
  /\ [][\A c \in Calls :
          /\ pc'[c] # pc[c] => <<pc[c], pc'[c]>> \in PhaseSteps
          /\ pc'[c] = "bind" =>
               loan'[c] # 0 /\ \A i \in 1..Len(pool') : pool'[i] # loan'[c]
          /\ pc'[c] = "done" /\ pc[c] # "done" =>
               last'.call = c /\ last'.loan = loan[c] /\ loan'[c] = 0
          /\ last'.call = c => pc[c] # "done" /\ pc'[c] = "done"]_vars

(* A run that failed was handed to its caller with its engine back in the  *)
(* pool.                                                                   *)
FailedAndReleased ==
  /\ Completed
  /\ last.settle.kind = "rejected"
  /\ last.result.kind = "returned"
  /\ InPool(last.loan)

(* C29: while dispose() has not been called, the engines idle in the pool  *)
(* and the calls in flight are at least warmCount together; with no call   *)
(* in flight the pool holds warmCount to maxPoolSize engines.              *)
WarmCapacityKept ==
  disposals = 0 =>
    /\ Len(pool) + Cardinality({c \in Calls : InFlight(c)}) >= warmCount
    /\ (\A c \in Calls : ~InFlight(c)) =>
         Len(pool) >= warmCount /\ Len(pool) <= maxPoolSize

(* After a release, the pool is empty again and exactly warmCount calls    *)
(* are in flight.                                                          *)
AllWarmEnginesOnLoan ==
  /\ pool = <<>>
  /\ Cardinality({c \in Calls : InFlight(c)}) = warmCount
  /\ \E c \in Calls : pc[c] = "done"

(* C30: dispose() leaves the engines on loan alive; a call in flight when  *)
(* it is called completes with its normal result; and once dispose() has   *)
(* run and no call is in flight, the pool is empty and no engine is alive. *)
ShutdownDisposesAll ==
  /\ disposals > 0 =>
       \A c \in Calls : InFlight(c) => isolate[loan[c]] = "live"
  /\ disposals > 0 /\ Completed
       /\ last.code = <<OpCall(FALSE), OpRet(JsNumber(42))>>
       /\ last.failed = <<>> =>
         last.result = [kind |-> "returned", output |-> "42", error |-> None]
  /\ disposals > 0 /\ (\A c \in Calls : ~InFlight(c)) =>
       /\ pool = <<>>
       /\ \A e \in Engines : isolate[e] # "live"

(* C31: the code_execution tool answers with isError exactly when the run  *)
(* ended in the catch block of execute(), whatever the thrown value or its *)
(* message.                                                                *)
ErrorIffCatchPath ==
  Completed /\ last.result.kind = "returned" =>
    (ToolResponse(last.result, last.logs).isError
       <=> last.settle.kind = "rejected")

(* C32: a run started from a session invokes only handlers bound to the    *)
(* JiraService of that session: while a capability call of a run is in     *)
(* flight, the service it reached is the one execute() was given for that  *)
(* run, whatever ran on the engine before and whatever runs beside it.     *)
OwnServiceOnly ==
  \A c \in Calls : pc[c] = "wait" => callee[c] = svc[c] /\ svc[c] \in Services

(* A capability call is in flight from a run on an engine on which a run   *)
(* of another session left its references.                                 *)
CallsFromUsedEngine ==
  \E c \in Calls : \E s \in Services \ {svc[c]} :
    /\ pc[c] = "wait"
    /\ {<<"_jiraApi", s>>, <<"_jiraSearch", s>>} \subseteq jail[loan[c]].older

(* The transports that are initialized and not closed.                     *)
InSession == {x \in Transports :
                transport[x].state = "open" /\ transport[x].id # None}

(* C33: the registry holds an entry for a session id exactly from the      *)
(* initialization of the session until its transport is closed or a DELETE *)
(* for it is handled: its entries are the initialized open transports      *)
(* under their ids, none refers to a closed transport, a DELETE answered   *)
(* 200 leaves no entry for its id, and a later GET with the id of a closed *)
(* session is answered 400, a later DELETE 404.                            *)
RegistryIsOpenSessions ==
  /\ [](/\ registry = {<<transport[x].id, x>> : x \in InSession}
        /\ \A en \in registry : transport[en[2]].state # "closed"
        /\ exchange.method = "DELETE" /\ exchange.status = 200 =>
             ~Has(registry, exchange.id))
  /\ [][\A x \in Transports :
          /\ transport[x].state = "closed"
          /\ exchange' # exchange
          /\ exchange'.id = transport[x].id
          /\ exchange'.method \in {"GET", "DELETE"}
          => exchange'.status = IF exchange'.method = "GET" THEN 400 ELSE 404]_vars

(* A session was deleted, and a later DELETE with its id was answered 404  *)
(* while another session is registered.                                    *)
DeletedTwice ==
  /\ exchange.method = "DELETE" /\ exchange.status = 404
  /\ \E x \in Transports :
       transport[x].state = "closed" /\ transport[x].id = exchange.id
  /\ registry # {}

(* A step that takes a POST: the request of the step is exchange'.         *)
PostTaken == exchange' # exchange /\ exchange'.method = "POST"

(* The POST of the step goes to the transport registered under its id and  *)
(* nothing is created.                                                     *)
PostReuses ==
  /\ exchange'.by = Get(registry, exchange'.id)
  /\ UNCHANGED <<registry, transport, servers, sessions>>

(* The POST of the step creates a transport and a server connected to it,  *)
(* and no registry entry.                                                  *)
PostCreates ==
  /\ exchange'.by \in Transports
  /\ transport[exchange'.by].state = "none"
  /\ transport'[exchange'.by].state = "open"
  /\ \A x \in Transports \ {exchange'.by} : transport'[x] = transport[x]
  /\ servers' = servers \cup {exchange'.by}
  /\ exchange'.by \notin servers
  /\ registry' = registry

(* The POST of the step is refused for its credentials and nothing is      *)
(* created.                                                                *)
PostRefused ==
  /\ exchange'.status = 400
  /\ exchange'.by = 0
  /\ exchange'.pat \in {None, ""} \/ exchange'.url \in {None, ""}
  /\ UNCHANGED <<registry, transport, servers, sessions>>

(* A step that adds to the registry adds one entry: that of a transport    *)
(* that handles the initialize request it was created for, under the id    *)
(* the transport was initialized with.                                     *)
EntryOnlyOnInitialize ==
  ~(registry' \subseteq registry) =>
    \E x \in Transports :
      /\ transport[x].state = "open"
      /\ transport[x].handling = "initialize"
      /\ transport[x].id = None
      /\ transport'[x].id \in SessionIds
      /\ ~Has(registry, transport'[x].id)
      /\ registry' = registry \cup {<<transport'[x].id, x>>}

(* C34, as stated: a POST with a registered session id is handled by the   *)
(* transport of that session and creates nothing; any other POST creates a *)
(* transport and a server; a registry entry is added only when, and under  *)
(* the id with which, the new session is initialized.                      *)
PostReusesOrCreates ==
  [][/\ PostTaken =>
          IF Has(registry, exchange'.id) THEN PostReuses ELSE PostCreates
     /\ EntryOnlyOnInitialize]_vars

(* C34, amended: the same, except that the Jira server refuses a POST that *)
(* would open a session without the X-Jira-PAT header or with JIRA_URL     *)
(* unset, and creates nothing for it.                                      *)
PostReusesCreatesOrRefuses ==
  [][/\ PostTaken =>
          IF Has(registry, exchange'.id) THEN PostReuses
          ELSE PostCreates \/ PostRefused
     /\ EntryOnlyOnInitialize]_vars

(* A POST was served by the transport of its registered session while a    *)
(* transport that was created for another request stays unregistered.      *)
ServedByRegisteredTransport ==
  /\ exchange.method = "POST"
  /\ Has(registry, exchange.id)
  /\ exchange.by = Get(registry, exchange.id)
  /\ \E x \in Transports \ {exchange.by} :
       transport[x] = [state |-> "open", id |-> None, handling |-> "none"]

(* C35: in the Jira server a POST that is not for a registered session and *)
(* lacks the X-Jira-PAT header, or arrives while JIRA_URL is unset, is     *)
(* answered 400 with the message of getJiraService and changes nothing; a  *)
(* POST for a registered session goes to its transport whatever its        *)
(* header.                                                                 *)
NoCredentialsNoSession ==
  [][PostTaken =>
       IF Has(registry, exchange'.id)
         THEN /\ exchange'.status # 400
              /\ exchange'.by = Get(registry, exchange'.id)
         ELSE (exchange'.pat \in {None, ""} \/ exchange'.url \in {None, ""}) =>
                /\ exchange'.status = 400
                /\ exchange'.by = 0
                /\ exchange'.error =
                     IF exchange'.pat \in {None, ""} THEN ErrNoPat ELSE ErrNoUrl
                /\ UNCHANGED <<registry, transport, servers, jira>>]_vars

(* A POST that was to open a session while JIRA_URL is unset was refused   *)
(* with the message of getJiraService, beside a registered session: there  *)
(* is still one transport and one server.                                  *)
RefusedWithoutUrl ==
  /\ exchange.method = "POST"
  /\ exchange.pat = "pat" /\ exchange.url = None
  /\ exchange.status = 400 /\ exchange.error = ErrNoUrl
  /\ Cardinality(registry) = 1
  /\ Cardinality(servers) = 1
  /\ Cardinality({x \in Transports : transport[x].state # "none"}) = 1

====
